---- MODULE Spec2Model ----
(***************************************************************************)
(* Model of src/main.py: the financial data extraction flow.               *)
(*                                                                         *)
(*   main_flow: init_database, then per input path                         *)
(*   create_financial_assistant and extract_financial_data (remote calls,  *)
(*   each of which may raise), accumulation of the returned records in     *)
(*   the results dict, then save_financial_data (per-document transaction  *)
(*   on the SQLite store, followed by the Parquet export).                 *)
(*                                                                         *)
(* JSON values are tagged records: [t |-> "num", n |-> 3],                 *)
(* [t |-> "str", s |-> "x"], [t |-> "null"] and                            *)
(* [t |-> "obj", f |-> <function from keys to values>].                    *)
(***************************************************************************)
EXTENDS Integers, Sequences, FiniteSets, TLC

\* ------------------------------------------------------------------ bounds
\* Longest list of input paths handed to main_flow.
MaxFiles == 2
\* Longest message list the remote thread returns.
MaxMsgs == 2
MaxDocs == 3
MaxElems == 3

\* ------------------------------------------------------------ JSON values
Num(n) == [t |-> "num", n |-> n]
Str(s) == [t |-> "str", s |-> s]
JNull == [t |-> "null"]
Obj(f) == [t |-> "obj", f |-> f]

\* Python's v[key] on a parsed JSON value: KeyError when the key is absent,
\* TypeError when v is not a dict; both are Exception.
CanSubscript(v, key) == v.t = "obj" /\ key \in DOMAIN v.f
Subscript(v, key) == v.f[key]

\* ------------------------------------------------------- default_data
default_data ==
    Obj([document_info |-> Obj([company_name |-> Str("Unknown"),
                                fiscal_year |-> Str("2023"),
                                document_type |-> Str("10-K")]),
         income_statement |-> Obj([revenue |-> Num(0),
                                   operating_income |-> Num(0),
                                   net_income |-> Num(0)]),
         balance_sheet |-> Obj([total_assets |-> Num(0),
                                total_liabilities |-> Num(0),
                                total_equity |-> Num(0)]),
         cash_flow |-> Obj([operating_cash_flow |-> Num(0),
                            investing_cash_flow |-> Num(0),
                            financing_cash_flow |-> Num(0)])])

\* --------------------------------------------- payloads the remote returns
\* A message text is a string of characters; what the code does with it is
\* json.loads, which either raises or yields the value the text denotes.
\* A text is modelled by whether it is well-formed JSON and, if so, the
\* value it denotes.
JsonText(v) == [syntax |-> "json", value |-> v]
GarbageText == [syntax |-> "garbage", value |-> JNull]

DocInfo(company) ==
    Obj([company_name |-> company, fiscal_year |-> Str("2021"),
         document_type |-> Str("10-K")])
Income(revenue) ==
    Obj([revenue |-> revenue, operating_income |-> Num(30), net_income |-> Num(20)])
Balance ==
    Obj([total_assets |-> Num(300), total_liabilities |-> Num(200),
         total_equity |-> Num(100)])
Cash ==
    Obj([operating_cash_flow |-> Num(40), investing_cash_flow |-> Num(-10),
         financing_cash_flow |-> Num(-5)])

\* The canonical payload of EXTRACTION_PROMPT.
GoodValue ==
    Obj([document_info |-> DocInfo(Str("Acme")), income_statement |-> Income(Num(120)),
         balance_sheet |-> Balance, cash_flow |-> Cash])
\* Valid JSON, the income_statement group is missing.
NoIncomeValue ==
    Obj([document_info |-> DocInfo(Str("Acme")),
         balance_sheet |-> Balance, cash_flow |-> Cash])
\* Valid JSON, the document_info group is missing.
NoDocInfoValue ==
    Obj([income_statement |-> Income(Num(120)),
         balance_sheet |-> Balance, cash_flow |-> Cash])
\* Valid JSON, revenue is null.
NullRevenueValue ==
    Obj([document_info |-> DocInfo(Str("Acme")), income_statement |-> Income(JNull),
         balance_sheet |-> Balance, cash_flow |-> Cash])
\* Valid JSON, company_name is null.
NullCompanyValue ==
    Obj([document_info |-> DocInfo(JNull), income_statement |-> Income(Num(120)),
         balance_sheet |-> Balance, cash_flow |-> Cash])
\* Valid JSON, the cash_flow group is a number and not an object.
ScalarGroupValue ==
    Obj([document_info |-> DocInfo(Str("Acme")), income_statement |-> Income(Num(120)),
         balance_sheet |-> Balance, cash_flow |-> Num(7)])

Texts ==
    {GarbageText, JsonText(GoodValue), JsonText(NoIncomeValue),
     JsonText(NoDocInfoValue), JsonText(NullRevenueValue),
     JsonText(NullCompanyValue), JsonText(ScalarGroupValue)}

\* A message: its role and its content list (message.content); the user
\* message is the prompt create_financial_assistant put on the thread.
UserMessage == [role |-> "user", content |-> <<GarbageText>>]
Messages ==
    {UserMessage}
    \cup {[role |-> "assistant", content |-> <<t>>] : t \in Texts}
    \cup {[role |-> "assistant", content |-> <<>>]}

SeqsUpTo(S, n) == UNION {[1..m -> S] : m \in 0..n}
MessageLists == SeqsUpTo(Messages, MaxMsgs)

\* json.loads(text): ok with the denoted value, or a raise.
json_loads(text) ==
    IF text.syntax = "json"
    THEN [raised |-> FALSE, value |-> text.value]
    ELSE [raised |-> TRUE, value |-> JNull]

\* message.content[0].text.value followed by json.loads, inside the try:
\* an empty content list raises IndexError, garbage raises JSONDecodeError.
ParseMessage(m) ==
    IF m.content = <<>>
    THEN [raised |-> TRUE, value |-> JNull]
    ELSE json_loads(m.content[1])

\* A variant of the loop that goes on to the next message when an assistant
\* message does not parse.
RECURSIVE FirstParsable(_, _)
FirstParsable(msgs, j) ==
    IF j > Len(msgs) THEN 0
    ELSE IF msgs[j].role = "assistant" /\ ~ParseMessage(msgs[j]).raised THEN j
    ELSE FirstParsable(msgs, j + 1)

\* The loop over messages.data: the first assistant message decides.
RECURSIVE FirstAssistant(_, _)
FirstAssistant(msgs, j) ==
    IF j > Len(msgs) THEN 0
    ELSE IF msgs[j].role = "assistant" THEN j
    ELSE FirstAssistant(msgs, j + 1)

\* A variant that falls off the end of the loop without the final return.
ExtractResult_NoFinalReturn(msgs) ==
    LET j == FirstAssistant(msgs, 1) IN
    IF j = 0 THEN JNull
    ELSE IF ParseMessage(msgs[j]).raised THEN default_data
    ELSE ParseMessage(msgs[j]).value

ExtractResult(msgs) ==
    LET j == FirstAssistant(msgs, 1) IN
    IF j = 0 THEN default_data
    ELSE IF ParseMessage(msgs[j]).raised THEN default_data
    ELSE ParseMessage(msgs[j]).value

\* ------------------------------------------------------------ input paths
\* A path is the sequence of its components; os.path.basename keeps the last.
Paths == {<<"a", "x.pdf">>, <<"b", "x.pdf">>, <<"a", "y.pdf">>}
basename(p) == p[Len(p)]


\* results is a Python dict: insertion-ordered, and assigning to a key it
\* already holds replaces the value in place.
RECURSIVE KeyIndex(_, _, _)
KeyIndex(d, key, j) ==
    IF j > Len(d) THEN 0
    ELSE IF d[j].key = key THEN j
    ELSE KeyIndex(d, key, j + 1)

DictSet(d, key, val) ==
    LET j == KeyIndex(d, key, 1) IN
    IF j = 0 THEN Append(d, [key |-> key, data |-> val])
    ELSE [d EXCEPT ![j] = [key |-> key, data |-> val]]

\* ------------------------------------------------------------- the store
EmptyTables ==
    [documents |-> <<>>, income_statements |-> <<>>,
     balance_sheets |-> <<>>, cash_flows |-> <<>>]

\* What a previous run may have left in gold/financial_data.db.
PrevRunTables ==
    [documents |-> <<[id |-> 1, company_name |-> Str("Old"),
                      fiscal_year |-> Str("2019"), document_type |-> Str("10-K")]>>,
     income_statements |-> <<[id |-> 1, document_id |-> 1, revenue |-> Num(90),
                              operating_income |-> Num(9), net_income |-> Num(5)]>>,
     balance_sheets |-> <<[id |-> 1, document_id |-> 1, total_assets |-> Num(50),
                           total_liabilities |-> Num(20), total_equity |-> Num(30)]>>,
     cash_flows |-> <<[id |-> 1, document_id |-> 1, operating_cash_flow |-> Num(8),
                       investing_cash_flow |-> Num(-1), financing_cash_flow |-> Num(-2)]>>]

\* INTEGER PRIMARY KEY AUTOINCREMENT: rows are only ever appended, and a
\* rollback restores sqlite_sequence with the rows, so the next id is the
\* row count plus one.
NextId(table) == Len(table) + 1

\* A parameter sqlite3 can bind: None, a number or a string; a dict or a
\* list raises a sqlite3.Error subclass.
Bindable(v) == v.t \in {"num", "str", "null"}

Ids(table) == {table[j].id : j \in 1..Len(table)}

\* The three fact tables, the record group each is fed from
\* (category.rstrip('s')) and the columns of each.
Categories == <<"income_statements", "balance_sheets", "cash_flows">>
GroupOf(category) ==
    CASE category = "income_statements" -> "income_statement"
      [] category = "balance_sheets" -> "balance_sheet"
      [] category = "cash_flows" -> "cash_flow"
Columns(category) ==
    CASE category = "income_statements" -> <<"revenue", "operating_income", "net_income">>
      [] category = "balance_sheets" -> <<"total_assets", "total_liabilities", "total_equity">>
      [] category = "cash_flows" ->
            <<"operating_cash_flow", "investing_cash_flow", "financing_cash_flow">>
DocumentColumns == <<"company_name", "fiscal_year", "document_type">>

\* Evaluating the parameter tuple data[group][col1], data[group][col2], ...:
\* possible when the group is a dict holding every column.
CanReadColumns(v, cols) == \A j \in 1..Len(cols) : CanSubscript(v, cols[j])

RunStatuses == {"queued", "in_progress", "completed", "failed"}
\* A variant of the loop condition that waits on a queued run only.
Polling_QueuedOnly == {"queued"}
\* The states the while loop of extract_financial_data waits in.
Polling == {"queued", "in_progress"}

NoInfo == [assistant_id |-> <<"none", 0>>, thread_id |-> <<"none", 0>>,
           file_id |-> <<"none", 0>>]

\* ------------------------------------------------------------------ state
VARIABLES
    file_paths,      \* main_flow's argument
    pc,              \* position in main_flow and the task it is in
    i,               \* index of the path the for loop of main_flow is at
    db,              \* committed content of gold/financial_data.db
    conn,            \* "closed" or "open": the sqlite3 connection
    txn,             \* the tables as the open connection sees them
    alloc,           \* remote resources allocated and not deleted
    deleted,         \* the delete calls the remote service has served
    run,             \* the remote run's state
    status,          \* run.status as last read
    assistant_info,  \* the dict create_financial_assistant returns
    messages,        \* messages.data
    financial_data,  \* what extract_financial_data returned
    results,         \* the batch map
    k,               \* index of the document save_financial_data is at
    doc_info,        \* data["document_info"]
    document_id,     \* cursor.lastrowid
    err,             \* the exception kind being handled, or "none"
    log,             \* per attempted document: label, outcome, row id
    c,               \* index of the export category
    snapshots,       \* the Parquet files written
    q,               \* run_analysis_queries: 0 before it starts, then the
                     \* index of the query it is at
    report,          \* the sections written to output.txt
    summary,         \* the lines of the processing summary __main__ prints
    html_content,    \* extract_features' argument: the elements of the markup
    p,               \* extract_features: the pass and the element it is at
    features         \* extract_features: the list named data in the code

vars == <<file_paths, pc, i, db, conn, txn, alloc, deleted, run, status,
          assistant_info, messages, financial_data, results, k, doc_info,
          document_id, err, log, c, snapshots, q, report, summary,
          html_content, p, features>>

remoteVars == <<alloc, deleted, run, status, assistant_info, messages, financial_data>>
saveVars == <<k, doc_info, document_id, err, log>>
storeVars == <<db, conn, txn>>
exportVars == <<c, snapshots>>
tailVars == <<q, report, summary>>
scanVars == <<html_content, p, features>>

InjectiveSeqs(S, n) ==
    {s \in SeqsUpTo(S, n) : \A a, b \in 1..Len(s) : a # b => s[a] # s[b]}

Init ==
    /\ file_paths \in InjectiveSeqs(Paths, MaxFiles)
    /\ pc = "init"
    /\ i = 1
    /\ db \in {EmptyTables, PrevRunTables}
    /\ conn = "closed"
    /\ txn = EmptyTables
    /\ alloc = {}
    /\ deleted = <<>>
    /\ run = "none"
    /\ status = "none"
    /\ assistant_info = NoInfo
    /\ messages = <<>>
    /\ financial_data = JNull
    /\ results = <<>>
    /\ k = 1
    /\ doc_info = JNull
    /\ document_id = 0
    /\ err = "none"
    /\ log = <<>>
    /\ c = 1
    /\ snapshots = <<>>
    /\ q = 0
    /\ report = <<>>
    /\ summary = <<>>
    /\ html_content = <<>>
    /\ p = [pass |-> "idle", at |-> 1]
    /\ features = <<>>

\* The head of main_flow's for loop.
LoopHead(j) == IF j <= Len(file_paths) THEN "files_create" ELSE "save"

\* An exception leaving main_flow: the flow's locals are gone.
Abort ==
    /\ pc' = "aborted"
    /\ messages' = <<>>
    /\ status' = "none"

\* ------------------------------------------------------- init_database
\* A variant that opens the existing file and keeps its rows.
NewStore_Kept == db

\* The store after os.remove and the four CREATE TABLE statements.
NewStore == EmptyTables

init_database ==
    /\ pc = "init"
    /\ db' = NewStore
    /\ pc' = LoopHead(i)
    /\ UNCHANGED <<file_paths, i, conn, txn, results>>
    /\ UNCHANGED <<remoteVars, saveVars, exportVars>>
    /\ UNCHANGED <<tailVars, scanVars>>

\* ------------------------------------------- create_financial_assistant
\* client.files.create(file=open(file_path, "rb"), ...)
files_create ==
    /\ pc = "files_create"
    /\ \/ /\ alloc' = alloc \cup {<<"file", i>>}
          /\ pc' = "assistants_create"
          /\ UNCHANGED <<messages, status>>
       \/ /\ Abort
          /\ UNCHANGED alloc
    /\ UNCHANGED <<file_paths, i, results, deleted, run, assistant_info, financial_data>>
    /\ UNCHANGED <<storeVars, saveVars, exportVars>>
    /\ UNCHANGED <<tailVars, scanVars>>

\* client.beta.assistants.create(...)
assistants_create ==
    /\ pc = "assistants_create"
    /\ \/ /\ alloc' = alloc \cup {<<"assistant", i>>}
          /\ pc' = "threads_create"
          /\ UNCHANGED <<messages, status>>
       \/ /\ Abort
          /\ UNCHANGED alloc
    /\ UNCHANGED <<file_paths, i, results, deleted, run, assistant_info, financial_data>>
    /\ UNCHANGED <<storeVars, saveVars, exportVars>>
    /\ UNCHANGED <<tailVars, scanVars>>

\* client.beta.threads.create(...) and the returned dict
threads_create ==
    /\ pc = "threads_create"
    /\ \/ /\ alloc' = alloc \cup {<<"thread", i>>}
          /\ assistant_info' = [assistant_id |-> <<"assistant", i>>,
                                thread_id |-> <<"thread", i>>,
                                file_id |-> <<"file", i>>]
          /\ pc' = "runs_create"
          /\ UNCHANGED <<messages, status>>
       \/ /\ Abort
          /\ UNCHANGED <<alloc, assistant_info>>
    /\ UNCHANGED <<file_paths, i, results, deleted, run, financial_data>>
    /\ UNCHANGED <<storeVars, saveVars, exportVars>>
    /\ UNCHANGED <<tailVars, scanVars>>


\* ----------------------------------------------- extract_financial_data
\* client.beta.threads.runs.create(...): the run starts on the remote side
\* and its status is read once.
runs_create ==
    /\ pc = "runs_create"
    /\ \/ /\ run' \in RunStatuses
          /\ status' = run'
          /\ pc' = "poll"
          /\ UNCHANGED messages
       \/ /\ Abort
          /\ UNCHANGED run
    /\ UNCHANGED <<file_paths, i, results, alloc, deleted, assistant_info, financial_data>>
    /\ UNCHANGED <<storeVars, saveVars, exportVars>>
    /\ UNCHANGED <<tailVars, scanVars>>

\* The remote service moves the run on while the client sleeps.
remote_advance ==
    /\ pc = "poll"
    /\ \/ run = "queued" /\ run' \in {"in_progress", "completed", "failed"}
       \/ run = "in_progress" /\ run' \in {"completed", "failed"}
    /\ UNCHANGED <<file_paths, pc, i, results, alloc, deleted, status, assistant_info,
                   messages, financial_data>>
    /\ UNCHANGED <<storeVars, saveVars, exportVars>>
    /\ UNCHANGED <<tailVars, scanVars>>

\* One turn of the while loop: sleep, then runs.retrieve(...).
runs_retrieve ==
    /\ pc = "poll"
    /\ status \in Polling
    /\ \/ /\ status' = run
          /\ UNCHANGED <<pc, messages>>
       \/ Abort
    /\ UNCHANGED <<file_paths, i, results, alloc, deleted, run, assistant_info,
                   financial_data>>
    /\ UNCHANGED <<storeVars, saveVars, exportVars>>
    /\ UNCHANGED <<tailVars, scanVars>>

\* client.beta.threads.messages.list(...), once the loop has ended.
messages_list ==
    /\ pc = "poll"
    /\ status \notin Polling
    /\ \/ /\ messages' \in MessageLists
          /\ pc' = "assistants_delete"
          /\ UNCHANGED status
       \/ Abort
    /\ UNCHANGED <<file_paths, i, results, alloc, deleted, run, assistant_info,
                   financial_data>>
    /\ UNCHANGED <<storeVars, saveVars, exportVars>>
    /\ UNCHANGED <<tailVars, scanVars>>

\* client.beta.assistants.delete(assistant_id=...)
assistants_delete ==
    /\ pc = "assistants_delete"
    /\ \/ /\ alloc' = alloc \ {assistant_info.assistant_id}
          /\ deleted' = Append(deleted, assistant_info.assistant_id)
          /\ pc' = "files_delete"
          /\ UNCHANGED <<messages, status>>
       \/ /\ Abort
          /\ UNCHANGED <<alloc, deleted>>
    /\ UNCHANGED <<file_paths, i, results, run, assistant_info, financial_data>>
    /\ UNCHANGED <<storeVars, saveVars, exportVars>>
    /\ UNCHANGED <<tailVars, scanVars>>

\* A variant that passes the assistant's id to the second delete.
DeletedFileId_Assistant == assistant_info.assistant_id

\* The id handed to client.files.delete.
DeletedFileId == assistant_info.file_id

\* client.files.delete(file_id=...)
files_delete ==
    /\ pc = "files_delete"
    /\ \/ /\ alloc' = alloc \ {DeletedFileId}
          /\ deleted' = Append(deleted, DeletedFileId)
          /\ pc' = "parse"
          /\ UNCHANGED <<messages, status>>
       \/ /\ Abort
          /\ UNCHANGED <<alloc, deleted>>
    /\ UNCHANGED <<file_paths, i, results, run, assistant_info, financial_data>>
    /\ UNCHANGED <<storeVars, saveVars, exportVars>>
    /\ UNCHANGED <<tailVars, scanVars>>

\* The loop over messages.data and the return of extract_financial_data.
extract_return ==
    /\ pc = "parse"
    /\ financial_data' = ExtractResult(messages)
    /\ pc' = "store"
    /\ UNCHANGED <<file_paths, i, results, alloc, deleted, run, status, assistant_info,
                   messages>>
    /\ UNCHANGED <<storeVars, saveVars, exportVars>>
    /\ UNCHANGED <<tailVars, scanVars>>

\* -------------------------------------------------------------- main_flow
\* results[os.path.basename(file_path)] = financial_data, and the next path.
store_result ==
    /\ pc = "store"
    /\ results' = DictSet(results, basename(file_paths[i]), financial_data)
    /\ i' = i + 1
    /\ pc' = LoopHead(i + 1)
    /\ messages' = <<>>
    /\ status' = "none"
    /\ UNCHANGED <<file_paths, alloc, deleted, run, assistant_info, financial_data>>
    /\ UNCHANGED <<storeVars, saveVars, exportVars>>
    /\ UNCHANGED <<tailVars, scanVars>>


\* ---------------------------------------------------- save_financial_data
\* conn.commit(): the store takes the content the connection sees.
CommitStore == txn

\* A variant in which the commit after each document is lost.
DocumentCommit_Lost == db

\* The conn.commit() that follows the four INSERTs of one document.
DocumentCommit == CommitStore

\* A variant in which the pending writes survive the rollback.
RolledBack_Kept == txn

\* conn.rollback(), and conn.close() with a transaction open: the
\* connection's pending writes are dropped.
RolledBack == db

\* sqlite3.connect(DATABASE_PATH) and the PRAGMA.
save_connect ==
    /\ pc = "save"
    /\ conn' = "open"
    /\ txn' = db
    /\ k' = 1
    /\ pc' = "doc"
    /\ UNCHANGED <<file_paths, i, results, db, doc_info, document_id, err, log>>
    /\ UNCHANGED <<remoteVars, exportVars>>
    /\ UNCHANGED <<tailVars, scanVars>>

\* for filename, data in results.items(): doc_info = data["document_info"].
\* The lookup is outside the inner try: when it raises, the exception
\* leaves the loop and the function through finally: conn.close().
save_doc_info ==
    /\ pc = "doc"
    /\ k <= Len(results)
    /\ IF CanSubscript(results[k].data, "document_info")
       THEN /\ doc_info' = Subscript(results[k].data, "document_info")
            /\ pc' = "insert_documents"
            /\ UNCHANGED <<conn, txn, messages, status>>
       ELSE /\ conn' = "closed"
            /\ txn' = RolledBack
            /\ Abort
            /\ UNCHANGED doc_info
    /\ UNCHANGED <<file_paths, i, results, db, k, document_id, err, log>>
    /\ UNCHANGED <<alloc, deleted, run, assistant_info, financial_data>>
    /\ UNCHANGED exportVars
    /\ UNCHANGED <<tailVars, scanVars>>

\* The row an INSERT adds to a fact table.
FactRow(category, id, docid, group) ==
    [x \in {"id", "document_id"} |-> IF x = "id" THEN id ELSE docid]
    @@ [col \in {Columns(category)[j] : j \in 1..3} |-> Subscript(group, col)]

DocumentRow(id, info) ==
    [id |-> id,
     company_name |-> Subscript(info, "company_name"),
     fiscal_year |-> Subscript(info, "fiscal_year"),
     document_type |-> Subscript(info, "document_type")]

\* INSERT INTO documents: every column is NOT NULL.
DocumentInsertable(info) ==
    \A j \in 1..3 :
        /\ Bindable(Subscript(info, DocumentColumns[j]))
        /\ Subscript(info, DocumentColumns[j]).t # "null"

\* INSERT INTO a fact table: the metric columns are nullable REAL, the
\* document_id is NOT NULL and, with foreign_keys ON, must name a document.
FactInsertable(category, docid, group) ==
    /\ \A j \in 1..3 : Bindable(Subscript(group, Columns(category)[j]))
    /\ docid \in Ids(txn.documents)

\* The first INSERT of the try block and cursor.lastrowid.
insert_documents ==
    /\ pc = "insert_documents"
    /\ IF ~CanReadColumns(doc_info, DocumentColumns)
       THEN /\ err' = "unexpected"
            /\ pc' = "rollback"
            /\ UNCHANGED <<txn, document_id>>
       ELSE IF ~DocumentInsertable(doc_info)
       THEN /\ err' = "sqlite"
            /\ pc' = "rollback"
            /\ UNCHANGED <<txn, document_id>>
       ELSE \/ /\ txn' = [txn EXCEPT !.documents =
                            Append(@, DocumentRow(NextId(@), doc_info))]
               /\ document_id' = NextId(txn.documents)
               /\ pc' = "insert_income_statements"
               /\ UNCHANGED err
            \/ /\ err' = "sqlite"
               /\ pc' = "rollback"
               /\ UNCHANGED <<txn, document_id>>
    /\ UNCHANGED <<file_paths, i, results, db, conn, k, doc_info, log>>
    /\ UNCHANGED <<remoteVars, exportVars>>
    /\ UNCHANGED <<tailVars, scanVars>>

\* One of the three fact INSERTs: the parameter tuple is evaluated first
\* (KeyError or TypeError when the group or a field is missing), then the
\* statement runs (a sqlite3.Error when it cannot).
InsertFacts(category, here, next) ==
    LET data == results[k].data
        group == GroupOf(category)
    IN
    /\ pc = here
    /\ IF ~(CanSubscript(data, group)
            /\ CanReadColumns(Subscript(data, group), Columns(category)))
       THEN /\ err' = "unexpected"
            /\ pc' = "rollback"
            /\ UNCHANGED txn
       ELSE IF ~FactInsertable(category, document_id, Subscript(data, group))
       THEN /\ err' = "sqlite"
            /\ pc' = "rollback"
            /\ UNCHANGED txn
       ELSE \/ /\ txn' = [txn EXCEPT ![category] =
                            Append(@, FactRow(category, NextId(@), document_id,
                                              Subscript(data, group)))]
               /\ pc' = next
               /\ UNCHANGED err
            \/ /\ err' = "sqlite"
               /\ pc' = "rollback"
               /\ UNCHANGED txn
    /\ UNCHANGED <<file_paths, i, results, db, conn, k, doc_info, document_id, log>>
    /\ UNCHANGED <<remoteVars, exportVars>>
    /\ UNCHANGED <<tailVars, scanVars>>

insert_income_statements ==
    InsertFacts("income_statements", "insert_income_statements", "insert_balance_sheets")

insert_balance_sheets ==
    InsertFacts("balance_sheets", "insert_balance_sheets", "insert_cash_flows")

insert_cash_flows ==
    InsertFacts("cash_flows", "insert_cash_flows", "commit")

\* conn.commit() after the four INSERTs of one document.
save_commit ==
    /\ pc = "commit"
    /\ db' = DocumentCommit
    /\ log' = Append(log, [label |-> results[k].key, outcome |-> "committed",
                           document_id |-> document_id])
    /\ k' = k + 1
    /\ pc' = "doc"
    /\ UNCHANGED <<file_paths, i, results, conn, txn, doc_info, document_id, err>>
    /\ UNCHANGED <<remoteVars, exportVars>>
    /\ UNCHANGED <<tailVars, scanVars>>

\* except sqlite3.Error / except Exception: print and conn.rollback().
save_rollback ==
    /\ pc = "rollback"
    /\ txn' = RolledBack
    /\ log' = Append(log, [label |-> results[k].key, outcome |-> err,
                           document_id |-> 0])
    /\ err' = "none"
    /\ k' = k + 1
    /\ pc' = "doc"
    /\ UNCHANGED <<file_paths, i, results, db, conn, doc_info, document_id>>
    /\ UNCHANGED <<remoteVars, exportVars>>
    /\ UNCHANGED <<tailVars, scanVars>>

\* The loop is over: conn.commit(), then finally: conn.close().
save_close ==
    /\ pc = "doc"
    /\ k > Len(results)
    /\ db' = CommitStore
    /\ conn' = "closed"
    /\ pc' = "export"
    /\ c' = 1
    /\ UNCHANGED <<file_paths, i, results, txn, snapshots>>
    /\ UNCHANGED <<remoteVars, saveVars>>
    /\ UNCHANGED <<tailVars, scanVars>>

\* One row of a snapshot: {"company": ..., "fiscal_year": ..., **group}.
CanExportRow(data, group) ==
    /\ CanSubscript(data, "document_info")
    /\ CanSubscript(Subscript(data, "document_info"), "company_name")
    /\ CanSubscript(Subscript(data, "document_info"), "fiscal_year")
    /\ CanSubscript(data, group)
    /\ Subscript(data, group).t = "obj"

\* A variant of the row without the company.
ExportRow_NoCompany(data, group) ==
    Subscript(data, group).f
    @@ [fiscal_year |-> Subscript(Subscript(data, "document_info"), "fiscal_year")]

ExportRow(data, group) ==
    Subscript(data, group).f
    @@ [company |-> Subscript(Subscript(data, "document_info"), "company_name"),
        fiscal_year |-> Subscript(Subscript(data, "document_info"), "fiscal_year")]

\* One turn of the loop over the three categories: the rows are built from
\* results, and the file is written when there is at least one row.
save_export ==
    LET group == GroupOf(Categories[c]) IN
    /\ pc = "export"
    /\ IF \A j \in 1..Len(results) : CanExportRow(results[j].data, group)
       THEN /\ snapshots' =
                  IF Len(results) > 0
                  THEN Append(snapshots,
                              [category |-> Categories[c],
                               rows |-> [j \in 1..Len(results) |->
                                            ExportRow(results[j].data, group)]])
                  ELSE snapshots
            /\ c' = c + 1
            /\ pc' = IF c = Len(Categories) THEN "analysis" ELSE "export"
            /\ UNCHANGED <<messages, status>>
       ELSE /\ Abort
            /\ UNCHANGED exportVars
    /\ UNCHANGED <<file_paths, i, results>>
    /\ UNCHANGED <<alloc, deleted, run, assistant_info, financial_data>>
    /\ UNCHANGED <<storeVars, saveVars>>
    /\ UNCHANGED <<tailVars, scanVars>>

\* ---------------------------------------------------- run_analysis_queries
\* SQL values: a stored cell is Num(n) or JNull; a computed column is NULL
\* or a number rounded to two decimals, held in hundredths.
Real2(h) == [t |-> "real", h |-> h]

Abs(x) == IF x < 0 THEN -x ELSE x
Sign(x) == IF x < 0 THEN -1 ELSE 1

\* A variant that drops the fraction instead of rounding.
RoundDiv_Truncate(a, b) == Sign(a) * Sign(b) * (Abs(a) \div Abs(b))

\* a / b rounded to the nearest integer, halves away from zero (b # 0).
RoundDiv(a, b) == Sign(a) * Sign(b) * ((2 * Abs(a) + Abs(b)) \div (2 * Abs(b)))

\* a - b: NULL when either side is NULL.
SqlSub(a, b) == IF a.t = "num" /\ b.t = "num" THEN Num(a.n - b.n) ELSE JNull

\* A variant in which a zero denominator yields 0.0 and not NULL.
RoundedPct_ZeroOnZero(a, b) ==
    IF a.t = "num" /\ b.t = "num"
    THEN IF b.n = 0 THEN Real2(0) ELSE Real2(RoundDiv(a.n * 10000, b.n))
    ELSE JNull

\* ROUND(a / b * 100, 2) on REAL columns: NULL when either side is NULL,
\* and NULL when b is 0 (SQLite's division by zero yields NULL).
RoundedPct(a, b) ==
    IF a.t = "num" /\ b.t = "num" /\ b.n # 0
    THEN Real2(RoundDiv(a.n * 10000, b.n))
    ELSE JNull

\* ROUND(AVG(x / 1000), 2) over the cells of a column: AVG skips NULLs and
\* is NULL when nothing is left.
RECURSIVE SumOf(_, _)
SumOf(cells, j) == IF j > Len(cells) THEN 0 ELSE cells[j].n + SumOf(cells, j + 1)

RoundedAvgThousands(cells) ==
    LET nums == SelectSeq(cells, LAMBDA v : v.t = "num") IN
    IF Len(nums) = 0 THEN JNull
    ELSE Real2(RoundDiv(SumOf(nums, 1) * 100, 1000 * Len(nums)))

\* The characters of the fiscal_year texts that occur; ORDER BY on a TEXT
\* column compares them character by character.
YearChars(year) ==
    CASE year = "2019" -> <<2, 0, 1, 9>>
      [] year = "2020" -> <<2, 0, 2, 0>>
      [] year = "2021" -> <<2, 0, 2, 1>>
      [] year = "2022" -> <<2, 0, 2, 2>>
      [] year = "2023" -> <<2, 0, 2, 3>>

RECURSIVE LexLeq(_, _)
LexLeq(a, b) ==
    IF a = <<>> THEN TRUE
    ELSE IF b = <<>> THEN FALSE
    ELSE IF Head(a) # Head(b) THEN Head(a) < Head(b)
    ELSE LexLeq(Tail(a), Tail(b))

YearLeq(x, y) == LexLeq(YearChars(x.s), YearChars(y.s))

\* documents d JOIN <table> t ON d.id = t.document_id, as pairs of rows.
JoinWith(table) ==
    {[d |-> txn.documents[a], f |-> txn[table][b]] :
        <<a, b>> \in {x \in (1..Len(txn.documents)) \X (1..Len(txn[table])) :
                        txn[table][x[2]].document_id = txn.documents[x[1]].id}}

\* documents JOIN cash_flows JOIN income_statements, as triples of rows.
JoinCashIncome ==
    {[d |-> x.d, f |-> x.f, g |-> y.f] :
        <<x, y>> \in {z \in JoinWith("cash_flows") \X JoinWith("income_statements") :
                        z[1].d = z[2].d}}

\* ORDER BY d.fiscal_year: every arrangement of the rows in which the years
\* do not decrease; rows with equal years come in an order SQL leaves open.
Ordered(rows) ==
    {o \in [1..Cardinality(rows) -> rows] :
        /\ \A a, b \in 1..Cardinality(rows) : a # b => o[a] # o[b]
        /\ \A a \in 1..(Cardinality(rows) - 1) :
              YearLeq(o[a].d.fiscal_year, o[a + 1].d.fiscal_year)}

ReportRow(year, values) == [fiscal_year |-> year, values |-> values]

\* The rows of a result: row[j] for the places j of keep, in order.
RowsFrom(o, keep, row) ==
    LET kept == SelectSeq([j \in 1..Len(o) |-> j], LAMBDA j : j \in keep)
    IN [m \in 1..Len(kept) |-> row[kept[m]]]

\* The places of o, and those whose predecessor holds a value in col
\* (WHERE prev IS NOT NULL over LAG).
Places(o) == 1..Len(o)
WithPrev(o, col) == {j \in 2..Len(o) : o[j - 1].f[col].t # "null"}

\* Query 1: LAG(revenue) over the year order, rows without a predecessor
\* value dropped.
RevenueGrowth(o) ==
    LET keep == WithPrev(o, "revenue") IN
    RowsFrom(o, keep,
             [j \in keep |->
                ReportRow(o[j].d.fiscal_year,
                          <<RoundedPct(SqlSub(o[j].f.revenue, o[j - 1].f.revenue),
                                       o[j - 1].f.revenue)>>)])

\* Query 2: net_income / revenue * 100.
NetMargin(o) ==
    RowsFrom(o, Places(o),
             [j \in Places(o) |->
                ReportRow(o[j].d.fiscal_year,
                          <<RoundedPct(o[j].f.net_income, o[j].f.revenue)>>)])

\* Query 3: the same lag on total_assets and total_liabilities.
BalanceChange(o) ==
    LET keep == WithPrev(o, "total_assets") IN
    RowsFrom(o, keep,
             [j \in keep |->
                ReportRow(o[j].d.fiscal_year,
                          <<RoundedPct(SqlSub(o[j].f.total_assets,
                                              o[j - 1].f.total_assets),
                                       o[j - 1].f.total_assets),
                            RoundedPct(SqlSub(o[j].f.total_liabilities,
                                              o[j - 1].f.total_liabilities),
                                       o[j - 1].f.total_liabilities)>>)])

\* Query 4: operating_cash_flow and its share of revenue.
CashFlowTrend(o) ==
    RowsFrom(o, Places(o),
             [j \in Places(o) |->
                ReportRow(o[j].d.fiscal_year,
                          <<o[j].f.operating_cash_flow,
                            RoundedPct(o[j].f.operating_cash_flow, o[j].g.revenue)>>)])

\* Query 5: (total_assets - total_liabilities) / total_liabilities * 100.
Liquidity(o) ==
    RowsFrom(o, Places(o),
             [j \in Places(o) |->
                ReportRow(o[j].d.fiscal_year,
                          <<RoundedPct(SqlSub(o[j].f.total_assets,
                                              o[j].f.total_liabilities),
                                       o[j].f.total_liabilities)>>)])

QueryTitles ==
    <<"1. Year-over-Year Revenue Growth", "2. Net Margin by Year",
      "3. Assets vs Liabilities YoY Change", "4. Operating Cash Flow Trend",
      "5. Liquidity Indicator">>

\* The data frames query n can return.
QueryResults(n) ==
    CASE n = 1 -> {RevenueGrowth(o) : o \in Ordered(JoinWith("income_statements"))}
      [] n = 2 -> {NetMargin(o) : o \in Ordered(JoinWith("income_statements"))}
      [] n = 3 -> {BalanceChange(o) : o \in Ordered(JoinWith("balance_sheets"))}
      [] n = 4 -> {CashFlowTrend(o) : o \in Ordered(JoinCashIncome)}
      [] n = 5 -> {Liquidity(o) : o \in Ordered(JoinWith("balance_sheets"))}

\* The one row of the summary query.
SummaryRow ==
    LET rows == JoinCashIncome
        o == CHOOSE f \in [1..Cardinality(rows) -> rows] :
                \A a, b \in 1..Cardinality(rows) : a # b => f[a] # f[b]
        n == Cardinality(rows)
    IN
    <<RoundedAvgThousands([j \in 1..n |-> o[j].g.revenue]),
      RoundedAvgThousands([j \in 1..n |-> o[j].g.net_income]),
      RoundedAvgThousands([j \in 1..n |-> o[j].f.operating_cash_flow])>>

\* A variant of the failure path without the finally clause.
AnalysisRaise_NoClose ==
    /\ Abort
    /\ UNCHANGED <<conn, txn>>

\* except Exception: print, raise; finally: conn.close(). The exception
\* leaves main_flow.
AnalysisRaise ==
    /\ Abort
    /\ conn' = "closed"
    /\ UNCHANGED txn

\* sqlite3.connect(DATABASE_PATH), open(output_file, 'w') and the heading.
analysis_open ==
    /\ pc = "analysis"
    /\ q = 0
    /\ conn' = "open"
    /\ txn' = db
    /\ q' = 1
    /\ pc' = "query"
    /\ UNCHANGED <<file_paths, i, results, db, report, summary, messages, status>>
    /\ UNCHANGED <<alloc, deleted, run, assistant_info, financial_data>>
    /\ UNCHANGED <<saveVars, exportVars, scanVars>>

\* One turn of the loop over queries: the title, pd.read_sql_query and the
\* frame written to the file; a failing query or write raises.
analysis_query ==
    /\ pc = "query"
    /\ q \in 1..Len(QueryTitles)
    /\ \/ /\ \E rows \in QueryResults(q) :
                report' = Append(report, [title |-> QueryTitles[q], rows |-> rows])
          /\ q' = q + 1
          /\ UNCHANGED <<pc, conn, txn, messages, status>>
       \/ /\ AnalysisRaise
          /\ UNCHANGED <<q, report>>
    /\ UNCHANGED <<file_paths, i, results, db, summary>>
    /\ UNCHANGED <<alloc, deleted, run, assistant_info, financial_data>>
    /\ UNCHANGED <<saveVars, exportVars, scanVars>>

\* The summary statistics block, then finally: conn.close() and the return
\* of main_flow.
analysis_summary ==
    /\ pc = "query"
    /\ q = Len(QueryTitles) + 1
    /\ \/ /\ report' = Append(report, [title |-> "Summary Statistics",
                                       rows |-> <<SummaryRow>>])
          /\ conn' = "closed"
          /\ q' = q + 1
          /\ pc' = "print_summary"
          /\ UNCHANGED <<txn, messages, status>>
       \/ /\ AnalysisRaise
          /\ UNCHANGED <<q, report>>
    /\ UNCHANGED <<file_paths, i, results, db, summary>>
    /\ UNCHANGED <<alloc, deleted, run, assistant_info, financial_data>>
    /\ UNCHANGED <<saveVars, exportVars, scanVars>>

\* ---------------------------------------------------------------- __main__
\* Python truthiness of a value: an empty dict, 0, "" and None are false.
Truthy(v) ==
    CASE v.t = "obj" -> DOMAIN v.f # {}
      [] v.t = "num" -> v.n # 0
      [] v.t = "str" -> v.s # ""
      [] v.t = "null" -> FALSE

\* print(f"{'✓' if data else '✗'} {file_name} (FY{fiscal_year})")
SummaryLine(entry) ==
    [file_name |-> entry.key,
     mark |-> IF Truthy(entry.data) THEN "ok" ELSE "failed",
     fiscal_year |-> Subscript(Subscript(entry.data, "document_info"), "fiscal_year")]

\* json.dump of the results and the processing summary; a record without
\* document_info or fiscal_year raises in the loop.
print_summary ==
    /\ pc = "print_summary"
    /\ IF \A j \in 1..Len(results) :
             /\ CanSubscript(results[j].data, "document_info")
             /\ CanSubscript(Subscript(results[j].data, "document_info"), "fiscal_year")
       THEN /\ summary' = [j \in 1..Len(results) |-> SummaryLine(results[j])]
            /\ pc' = "done"
            /\ UNCHANGED <<messages, status>>
       ELSE /\ Abort
            /\ UNCHANGED summary
    /\ UNCHANGED <<file_paths, i, results, q, report>>
    /\ UNCHANGED <<alloc, deleted, run, assistant_info, financial_data>>
    /\ UNCHANGED <<storeVars, saveVars, exportVars, scanVars>>

\* ------------------------------------------------------------------- spec
Next ==
    \/ init_database
    \/ files_create
    \/ assistants_create
    \/ threads_create
    \/ runs_create
    \/ remote_advance
    \/ runs_retrieve
    \/ messages_list
    \/ assistants_delete
    \/ files_delete
    \/ extract_return
    \/ store_result
    \/ save_connect
    \/ save_doc_info
    \/ insert_documents
    \/ insert_income_statements
    \/ insert_balance_sheets
    \/ insert_cash_flows
    \/ save_commit
    \/ save_rollback
    \/ save_close
    \/ save_export
    \/ analysis_open
    \/ analysis_query
    \/ analysis_summary
    \/ print_summary

Spec == Init /\ [][Next]_vars

\* ------------------------------------------------------ extract_features
\* The markup is the sequence of its elements in document order, which is
\* the order soup.find_all walks them in. An element has a tag name, its
\* attributes and its text, a string of characters.
Element(tag, attrs, text) == [tag |-> tag, attrs |-> attrs, text |-> text]

NoAttrs == [a \in {} |-> ""]
Elements ==
    {Element("ix:nonfraction", [name |-> "Revenue", unitRef |-> "USD", decimals |-> "-3"],
             <<"1", ",", "2", "3", "4">>),
     Element("ix:nonfraction", NoAttrs, <<" ", "-", "5", ".", "5", "0", " ">>),
     Element("ix:nonfraction", [name |-> "Revenue"], <<"1", "2", ".">>),
     Element("ix:nonfraction", [name |-> "Shares"], <<"n", "/", "a">>),
     Element("ix:nonnumeric", [name |-> "DocumentType"], <<" ", "1", "0", "-", "K">>),
     Element("ix:nonnumeric", NoAttrs, <<"1", ",", "2", "3", "4">>),
     Element("div", [name |-> "Revenue"], <<"7">>)}

\* soup.find_all(tag): the elements with that tag, in document order.
find_all(html, tag) == SelectSeq(html, LAMBDA e : e.tag = tag)

\* tag.get(key, default)
Get(e, key, default) == IF key \in DOMAIN e.attrs THEN e.attrs[key] ELSE default

\* str.strip(): leading and trailing blanks removed.
RECURSIVE LStrip(_)
LStrip(cs) == IF cs # <<>> /\ cs[1] = " " THEN LStrip(Tail(cs)) ELSE cs
RECURSIVE RStrip(_)
RStrip(cs) ==
    IF cs # <<>> /\ cs[Len(cs)] = " " THEN RStrip(SubSeq(cs, 1, Len(cs) - 1)) ELSE cs
Strip(cs) == RStrip(LStrip(cs))

\* re.sub(r",", "", s)
RemoveCommas(cs) == SelectSeq(cs, LAMBDA ch : ch # ",")

Digits == {"0", "1", "2", "3", "4", "5", "6", "7", "8", "9"}
DigitValue(ch) ==
    CASE ch = "0" -> 0 [] ch = "1" -> 1 [] ch = "2" -> 2 [] ch = "3" -> 3
      [] ch = "4" -> 4 [] ch = "5" -> 5 [] ch = "6" -> 6 [] ch = "7" -> 7
      [] ch = "8" -> 8 [] ch = "9" -> 9

AllDigits(cs) == cs # <<>> /\ \A j \in 1..Len(cs) : cs[j] \in Digits
Unsigned(cs) == IF cs # <<>> /\ cs[1] = "-" THEN Tail(cs) ELSE cs
DotAt(cs) == {j \in 1..Len(cs) : cs[j] = "."}

\* re.match(r"^-?\d+(\.\d+)?$", s)
IsNumeral(cs) ==
    LET u == Unsigned(cs) IN
    \/ AllDigits(u)
    \/ \E d \in DotAt(u) : /\ AllDigits(SubSeq(u, 1, d - 1))
                            /\ AllDigits(SubSeq(u, d + 1, Len(u)))

RECURSIVE Whole(_)
Whole(cs) == IF cs = <<>> THEN 0
             ELSE 10 * Whole(SubSeq(cs, 1, Len(cs) - 1)) + DigitValue(cs[Len(cs)])
RECURSIVE DropZeros(_)
DropZeros(cs) ==
    IF cs # <<>> /\ cs[Len(cs)] = "0" THEN DropZeros(SubSeq(cs, 1, Len(cs) - 1)) ELSE cs

\* float(s) of a numeral: its sign, its whole part and the digits of its
\* fraction without trailing zeros.
Float(cs) ==
    LET u == Unsigned(cs)
        d == IF DotAt(u) = {} THEN Len(u) + 1 ELSE CHOOSE x \in DotAt(u) : TRUE
    IN [t |-> "float",
        negative |-> (cs # u),
        whole |-> Whole(SubSeq(u, 1, d - 1)),
        fraction |-> DropZeros(SubSeq(u, d + 1, Len(u)))]

\* The value of a numeric element, None when the text is not a numeral.
NumericValue(e) ==
    LET value == RemoveCommas(Strip(e.text)) IN
    IF IsNumeral(value) THEN Float(value) ELSE JNull

NumericFact(e) ==
    [tag |-> "nonfraction", name |-> Get(e, "name", "Unknown"),
     value |-> NumericValue(e), unit |-> Get(e, "unitRef", "Unknown"),
     decimals |-> Get(e, "decimals", "Unknown")]

NonNumericFact(e) ==
    [tag |-> "nonnumeric", name |-> Get(e, "name", "Unknown"),
     value |-> [t |-> "text", chars |-> Strip(e.text)],
     unit |-> "N/A", decimals |-> "N/A"]

\* A variant that keeps a fact only the first time it is seen.
append_Once(data, fact) ==
    IF \E j \in 1..Len(data) : data[j] = fact THEN data ELSE Append(data, fact)

\* data.append(fact)
append(data, fact) == Append(data, fact)

\* One turn of the loop over the ix:nonfraction elements, or its end.
scan_nonfraction ==
    /\ p.pass = "nonfraction"
    /\ LET tags == find_all(html_content, "ix:nonfraction") IN
       IF p.at > Len(tags)
       THEN /\ p' = [pass |-> "nonnumeric", at |-> 1]
            /\ UNCHANGED features
       ELSE /\ features' = IF NumericValue(tags[p.at]) # JNull
                           THEN append(features, NumericFact(tags[p.at]))
                           ELSE features
            /\ p' = [p EXCEPT !.at = @ + 1]
    /\ UNCHANGED <<file_paths, pc, i, results, html_content, messages, status>>
    /\ UNCHANGED <<alloc, deleted, run, assistant_info, financial_data>>
    /\ UNCHANGED <<storeVars, saveVars, exportVars, tailVars>>

\* One turn of the loop over the ix:nonnumeric elements, or the return.
scan_nonnumeric ==
    /\ p.pass = "nonnumeric"
    /\ LET tags == find_all(html_content, "ix:nonnumeric") IN
       IF p.at > Len(tags)
       THEN /\ p' = [pass |-> "returned", at |-> 1]
            /\ UNCHANGED features
       ELSE /\ features' = append(features, NonNumericFact(tags[p.at]))
            /\ p' = [p EXCEPT !.at = @ + 1]
    /\ UNCHANGED <<file_paths, pc, i, results, html_content, messages, status>>
    /\ UNCHANGED <<alloc, deleted, run, assistant_info, financial_data>>
    /\ UNCHANGED <<storeVars, saveVars, exportVars, tailVars>>

\* extract_features on any markup of up to MaxElems elements.
ScanInit ==
    /\ html_content \in SeqsUpTo(Elements, MaxElems)
    /\ p = [pass |-> "nonfraction", at |-> 1]
    /\ features = <<>>
    /\ pc = "extract_features"
    /\ file_paths = <<>>
    /\ i = 1
    /\ db = EmptyTables
    /\ conn = "closed"
    /\ txn = EmptyTables
    /\ alloc = {}
    /\ deleted = <<>>
    /\ run = "none"
    /\ status = "none"
    /\ assistant_info = NoInfo
    /\ messages = <<>>
    /\ financial_data = JNull
    /\ results = <<>>
    /\ k = 1
    /\ doc_info = JNull
    /\ document_id = 0
    /\ err = "none"
    /\ log = <<>>
    /\ c = 1
    /\ snapshots = <<>>
    /\ q = 0
    /\ report = <<>>
    /\ summary = <<>>

ScanNext ==
    \/ scan_nonfraction
    \/ scan_nonnumeric

ScanSpec == ScanInit /\ [][ScanNext]_vars

\* ------------------------------------------------ one document, scheduled
\* The steps of the program itself: every action but the remote service's.
ClientStep ==
    \/ init_database
    \/ files_create
    \/ assistants_create
    \/ threads_create
    \/ runs_create
    \/ runs_retrieve
    \/ messages_list
    \/ assistants_delete
    \/ files_delete
    \/ extract_return
    \/ store_result
    \/ save_connect
    \/ save_doc_info
    \/ insert_documents
    \/ insert_income_statements
    \/ insert_balance_sheets
    \/ insert_cash_flows
    \/ save_commit
    \/ save_rollback
    \/ save_close
    \/ save_export
    \/ analysis_open
    \/ analysis_query
    \/ analysis_summary
    \/ print_summary

\* main_flow on a single path.
LiveInit == Init /\ Len(file_paths) = 1

\* The program is one thread that keeps running: its next step is taken
\* whenever one is possible. Nothing is assumed of the remote service, which
\* may leave a run queued or in progress forever.
LiveSpec == LiveInit /\ [][Next]_vars /\ WF_vars(ClientStep)

\* ------------------------------------------- run_analysis_queries alone
\* run_analysis_queries on the stores save_financial_data can leave: up to
\* MaxDocs documents, each with its three fact rows.
\* The fiscal year and the revenue of the documents a store is made of.
YearRevenues ==
    {<<"2020", Num(100)>>, <<"2021", Num(120)>>, <<"2022", Num(150)>>,
     <<"2022", Num(100)>>, <<"2021", Num(0)>>, <<"2020", JNull>>}

StoredRecord(year, revenue) ==
    Obj([document_info |-> Obj([company_name |-> Str("Acme"),
                                fiscal_year |-> Str(year),
                                document_type |-> Str("10-K")]),
         income_statement |-> Income(revenue),
         balance_sheet |-> Balance,
         cash_flow |-> Cash])

StoredRecords == {StoredRecord(x[1], x[2]) : x \in YearRevenues}

\* The tables after the records were committed one after the other.
StoreOf(recs) ==
    [documents |-> [j \in 1..Len(recs) |->
                        DocumentRow(j, Subscript(recs[j], "document_info"))],
     income_statements |-> [j \in 1..Len(recs) |->
         FactRow("income_statements", j, j, Subscript(recs[j], "income_statement"))],
     balance_sheets |-> [j \in 1..Len(recs) |->
         FactRow("balance_sheets", j, j, Subscript(recs[j], "balance_sheet"))],
     cash_flows |-> [j \in 1..Len(recs) |->
         FactRow("cash_flows", j, j, Subscript(recs[j], "cash_flow"))]]

AnalysisInit ==
    /\ db \in {StoreOf(recs) : recs \in SeqsUpTo(StoredRecords, MaxDocs)}
    /\ pc = "analysis"
    /\ file_paths = <<>>
    /\ i = 1
    /\ conn = "closed"
    /\ txn = EmptyTables
    /\ alloc = {}
    /\ deleted = <<>>
    /\ run = "none"
    /\ status = "none"
    /\ assistant_info = NoInfo
    /\ messages = <<>>
    /\ financial_data = JNull
    /\ results = <<>>
    /\ k = 1
    /\ doc_info = JNull
    /\ document_id = 0
    /\ err = "none"
    /\ log = <<>>
    /\ c = 1
    /\ snapshots = <<>>
    /\ q = 0
    /\ report = <<>>
    /\ summary = <<>>
    /\ html_content = <<>>
    /\ p = [pass |-> "idle", at |-> 1]
    /\ features = <<>>

AnalysisNext ==
    \/ analysis_open
    \/ analysis_query
    \/ analysis_summary

AnalysisSpec == AnalysisInit /\ [][AnalysisNext]_vars


\* ----------------------------------------------------------------- claims
Groups == {"document_info", "income_statement", "balance_sheet", "cash_flow"}
MetricsOf(group) ==
    CASE group = "income_statement" -> {"revenue", "operating_income", "net_income"}
      [] group = "balance_sheet" -> {"total_assets", "total_liabilities", "total_equity"}
      [] group = "cash_flow" ->
            {"operating_cash_flow", "investing_cash_flow", "financing_cash_flow"}
      [] group = "document_info" -> {"company_name", "fiscal_year", "document_type"}
FactTables == {"income_statements", "balance_sheets", "cash_flows"}

Count(seq, x) == Cardinality({j \in 1..Len(seq) : seq[j] = x})
RowsFor(table, d) == {j \in 1..Len(table) : table[j].document_id = d}
DocRows(table, d) == {j \in 1..Len(table) : table[j].id = d}
Committed == {j \in 1..Len(log) : log[j].outcome = "committed"}

\* save_financial_data has ended, by returning from the store part (the
\* export and what follows it) or by raising.
SaveEnded ==
    \/ pc \in {"export", "analysis", "query", "print_summary", "done"}
    \/ pc = "aborted" /\ i > Len(file_paths) /\ conn = "closed"

\* The four rows of batch document j, as written from its record.
HasRowsOf(tables, j) ==
    LET d == log[j].document_id
        data == results[j].data
    IN
    /\ \E r \in DocRows(tables.documents, d) :
          /\ DocRows(tables.documents, d) = {r}
          /\ tables.documents[r] = DocumentRow(d, Subscript(data, "document_info"))
    /\ \A cat \in FactTables :
          \E r \in RowsFor(tables[cat], d) :
             /\ RowsFor(tables[cat], d) = {r}
             /\ \A col \in MetricsOf(GroupOf(cat)) :
                   tables[cat][r][col] = Subscript(Subscript(data, GroupOf(cat)), col)

\* C1: once save_financial_data has ended (returned or raised), every batch
\* document has either all four of its rows in the store (one documents row
\* and exactly one row per fact table referencing it) or none, and no fact
\* row references a missing documents row.
C1_PerDocumentAtomicity ==
    SaveEnded =>
        /\ \A j \in Committed : HasRowsOf(db, j)
        /\ Len(db.documents) = Cardinality(Committed)
        /\ \A cat \in FactTables :
              /\ Len(db[cat]) = Cardinality(Committed)
              /\ \A r \in 1..Len(db[cat]) : db[cat][r].document_id \in Ids(db.documents)

\* C1 witness: the store part returned with one document committed and
\* another rolled back after its documents row had been inserted.
C1_Witness ==
    /\ pc = "export"
    /\ \E a, b \in 1..Len(log) :
          log[a].outcome = "committed" /\ log[b].outcome = "unexpected"

\* Document j of the batch has been attempted: its write was committed or
\* rolled back, or it is the document whose write raised.
Attempted(j) == j <= Len(log) \/ (pc = "aborted" /\ j = k)

\* C2: a document whose write fails, for whatever reason, does not stop the
\* batch: when save_financial_data has ended, every document of the batch
\* has been attempted, and every document whose write succeeded is in the
\* store.
C2_FailureIsolation ==
    SaveEnded =>
        /\ \A j \in 1..Len(results) : Attempted(j)
        /\ \A j \in 1..Len(log) : log[j].label = results[j].key
        /\ \A j \in Committed : HasRowsOf(db, j)

\* C3: a failure on a later document never removes or changes the rows of
\* a document committed before it: every committed document keeps its four
\* rows, in the store and in the connection's view of it.
C3_CommittedRowsKept ==
    \A j \in Committed :
        /\ HasRowsOf(db, j)
        /\ conn = "open" => HasRowsOf(txn, j)

\* C3 witness: a rollback has been taken after an earlier commit.
C3_Witness ==
    /\ pc = "doc"
    /\ \E a, b \in 1..Len(log) :
          a < b /\ log[a].outcome = "committed" /\ log[b].outcome # "committed"

\* C4: whenever extract_financial_data has returned a record, the file and
\* the assistant of that run have each been deleted exactly once.
C4_ReleasedExactlyOnce ==
    \A j \in 1..MaxFiles + 1 :
        (j < i \/ (j = i /\ pc = "store")) =>
            /\ Count(deleted, <<"file", j>>) = 1
            /\ Count(deleted, <<"assistant", j>>) = 1

\* C4 witness: a run that ended failed has returned the default record.
C4_Witness ==
    /\ pc = "store"
    /\ status = "failed"
    /\ financial_data = default_data

\* C5: when an exception leaves the flow, no uploaded file and no assistant
\* is left allocated.
C5_ReleasedOnFailure ==
    pc = "aborted" => \A r \in alloc : r[1] \notin {"file", "assistant"}

\* C6: when extract_financial_data returns, the file, the assistant and the
\* thread created for the document have all been released.
C6_AllResourcesReleased ==
    pc = "store" =>
        /\ {<<"file", i>>, <<"assistant", i>>, <<"thread", i>>}
              \subseteq {deleted[j] : j \in 1..Len(deleted)}
        /\ \A r \in alloc : r[2] # i

\* The fixed default record, field by field.
IsDefaultRecord(v) ==
    /\ v.t = "obj"
    /\ DOMAIN v.f = Groups
    /\ v.f.document_info = Obj([company_name |-> Str("Unknown"),
                                fiscal_year |-> Str("2023"),
                                document_type |-> Str("10-K")])
    /\ \A g \in Groups \ {"document_info"} :
          /\ v.f[g].t = "obj"
          /\ DOMAIN v.f[g].f = MetricsOf(g)
          /\ \A col \in MetricsOf(g) : v.f[g].f[col] = Num(0)

NoAssistantMessage(msgs) == \A j \in 1..Len(msgs) : msgs[j].role # "assistant"
IsFirstAssistant(msgs, j) ==
    /\ j \in 1..Len(msgs)
    /\ msgs[j].role = "assistant"
    /\ \A h \in 1..(j - 1) : msgs[h].role # "assistant"
IsJson(m) == m.content # <<>> /\ m.content[1].syntax = "json"

\* C7: when there is no assistant message, or the first one is not parsable
\* JSON, extract_financial_data returns the fixed default record; and the
\* rows persisted for a document with that record have company_name
\* "Unknown" and every financial field 0.
C7_DefaultOnUnparsable ==
    /\ pc = "store" =>
          ((\/ NoAssistantMessage(messages)
            \/ \E j \in 1..Len(messages) :
                  IsFirstAssistant(messages, j) /\ ~IsJson(messages[j]))
           => IsDefaultRecord(financial_data))
    /\ \A j \in Committed :
          IsDefaultRecord(results[j].data) =>
             /\ \E r \in DocRows(db.documents, log[j].document_id) :
                   db.documents[r].company_name = Str("Unknown")
             /\ \A cat \in FactTables :
                   \E r \in RowsFor(db[cat], log[j].document_id) :
                      \A col \in MetricsOf(GroupOf(cat)) : db[cat][r][col] = Num(0)

\* C7 witness: a fallback record has been committed.
C7_Witness ==
    /\ pc = "export"
    /\ \E j \in Committed : IsDefaultRecord(results[j].data)

\* The canonical schema: the four groups, each an object with exactly its
\* fields.
MatchesSchema(v) ==
    /\ v.t = "obj"
    /\ DOMAIN v.f = Groups
    /\ \A g \in Groups : v.f[g].t = "obj" /\ DOMAIN v.f[g].f = MetricsOf(g)

\* C8: when the first assistant message is valid JSON that does not match
\* the canonical schema, extract_financial_data returns the default record.
C8_SchemaMismatchFallsBack ==
    pc = "store" =>
        \A j \in 1..Len(messages) :
            (/\ IsFirstAssistant(messages, j)
             /\ IsJson(messages[j])
             /\ ~MatchesSchema(messages[j].content[1].value))
            => IsDefaultRecord(financial_data)

\* C9: the record main_flow puts in the batch map has all four groups: a
\* group the extracted record lacks is the default's, the others are kept.
C9_NormalizedBeforeAccumulation ==
    [][pc = "store" =>
          LET e == results'[KeyIndex(results', basename(file_paths[i]), 1)].data IN
          /\ e.t = "obj"
          /\ DOMAIN e.f = Groups
          /\ \A g \in Groups :
                e.f[g] = IF CanSubscript(financial_data, g)
                         THEN Subscript(financial_data, g)
                         ELSE Subscript(default_data, g)]_vars

\* C10: every metric column of every row in the store holds a number.
C10_NoNullMetric ==
    \A cat \in FactTables :
        \A r \in 1..Len(db[cat]) :
            \A col \in MetricsOf(GroupOf(cat)) : db[cat][r][col].t = "num"


\* run_analysis_queries has raised: the flow stopped inside it.
AnalysisFailed == pc = "aborted" /\ q \in 1..(Len(QueryTitles) + 1)

\* C11: when run_analysis_queries fails, the exception aborts the run (no
\* processing summary follows), the connection is closed, and the four
\* tables hold exactly the rows of the documents save_financial_data
\* committed.
C11_AnalysisFailureKeepsStore ==
    AnalysisFailed =>
        /\ conn = "closed"
        /\ summary = <<>>
        /\ \A j \in Committed : HasRowsOf(db, j)
        /\ Len(db.documents) = Cardinality(Committed)
        /\ \A cat \in FactTables : Len(db[cat]) = Cardinality(Committed)

\* C11 witness: a query failed after some sections were written, with
\* documents in the store.
C11_Witness ==
    /\ AnalysisFailed
    /\ Committed # {}
    /\ Len(report) >= 1
    /\ Len(db.documents) >= 1

\* C14: in the processing summary, a document whose record is the fallback
\* record carries a different mark from a document whose extraction parsed.
C14_FallbackReported ==
    pc = "done" =>
        \A a, b \in 1..Len(summary) :
            (IsDefaultRecord(results[a].data) /\ ~IsDefaultRecord(results[b].data))
            => summary[a].mark # summary[b].mark

\* run_analysis_queries ran to its end.
AnalysisDone == q = Len(QueryTitles) + 2

\* The report rows of section n whose value list is vals.
RowsWith(n, vals) == {j \in 1..Len(report[n].rows) : report[n].rows[j].values = vals}

ZeroLiabilities ==
    {j \in 1..Len(db.balance_sheets) : db.balance_sheets[j].total_liabilities = Num(0)}
ZeroRevenue ==
    {j \in 1..Len(db.income_statements) : db.income_statements[j].revenue = Num(0)}

\* C12: a stored total_liabilities = 0 or revenue = 0 does not make a query
\* fail: every query has a result whatever the rows are, a completed
\* analysis wrote the five sections and the summary block, and the ratio of
\* each affected row is null.
C12_ZeroDenominatorHandled ==
    /\ (pc = "query" /\ q \in 1..Len(QueryTitles)) => QueryResults(q) # {}
    /\ AnalysisDone =>
          /\ Len(report) = Len(QueryTitles) + 1
          /\ \A n \in 1..Len(QueryTitles) : report[n].title = QueryTitles[n]
          /\ report[Len(report)].title = "Summary Statistics"
          /\ Len(report[2].rows) = Len(db.income_statements)
          /\ Len(report[5].rows) = Len(db.balance_sheets)
          /\ Cardinality(RowsWith(5, <<JNull>>)) >= Cardinality(ZeroLiabilities)
          /\ Cardinality(RowsWith(2, <<JNull>>)) >= Cardinality(ZeroRevenue)
          /\ \A n \in {2, 5} : \A j \in 1..Len(report[n].rows) :
                report[n].rows[j].values[1].t \in {"null", "real"}

\* C12 witness: the analysis completed over a store holding a fallback
\* record (all metrics 0) next to a parsed one.
C12_Witness ==
    /\ AnalysisDone
    /\ ZeroLiabilities # {}
    /\ ZeroRevenue # {}
    /\ Len(db.documents) = 2
    /\ RowsWith(5, <<JNull>>) # {}
    /\ RowsWith(5, <<Real2(5000)>>) # {}

\* The stored documents by position, their years and their revenues.
StoredDocs == 1..Len(db.documents)
YearOf(j) == db.documents[j].fiscal_year
RevenueOf(j) ==
    LET row == CHOOSE r \in {db.income_statements[a] : a \in 1..Len(db.income_statements)} :
                   r.document_id = db.documents[j].id
    IN row.revenue

DistinctYears == \A a, b \in StoredDocs : a # b => YearOf(a) # YearOf(b)
UsableRevenues == \A j \in StoredDocs : RevenueOf(j).t = "num" /\ RevenueOf(j).n # 0

\* The place of document j in fiscal_year order, and the document at a place.
Rank(j) == Cardinality({a \in StoredDocs : YearLeq(YearOf(a), YearOf(j))})
DocAt(r) == CHOOSE j \in StoredDocs : Rank(j) = r

\* Section 1 has one row per document but the first of the year order, in
\* that order, each with a value accepted by ok(value, revenue, prev_revenue).
GrowthRows(ok(_, _, _)) ==
    LET n == Len(db.documents)
        rows == report[1].rows
    IN /\ Len(rows) = IF n = 0 THEN 0 ELSE n - 1
       /\ \A r \in 2..n :
             /\ rows[r - 1].fiscal_year = YearOf(DocAt(r))
             /\ Len(rows[r - 1].values) = 1
             /\ ok(rows[r - 1].values[1], RevenueOf(DocAt(r)), RevenueOf(DocAt(r - 1)))

ExactPct(v, rev, prev) == v.t = "real" /\ v.h * prev.n = (rev.n - prev.n) * 10000
\* v, in hundredths, is the value nearest to the quotient, a tie going to
\* the one farther from zero.
RoundedTo2(v, rev, prev) ==
    LET num == (rev.n - prev.n) * 10000
        off == Abs(v.h * prev.n - num)
    IN /\ v.t = "real"
       /\ 2 * off <= Abs(prev.n)
       /\ 2 * off = Abs(prev.n) => Abs(v.h * prev.n) > Abs(num)

\* C13 as stated: with pairwise distinct years and non-null, non-zero
\* revenues, query 1 yields one row per document except the least year, and
\* the value is exactly (revenue - prev_revenue) / prev_revenue * 100.
C13_GrowthExact ==
    (q >= 2 /\ DistinctYears /\ UsableRevenues) => GrowthRows(ExactPct)

\* C13: with pairwise distinct years and non-null, non-zero revenues, query 1
\* yields one row per document except the least year, in year order, and the
\* value is (revenue - prev_revenue) / prev_revenue * 100 rounded to two
\* decimals, prev_revenue being the revenue of the preceding year.
C13_GrowthRounded ==
    (q >= 2 /\ DistinctYears /\ UsableRevenues) => GrowthRows(RoundedTo2)

\* C13 witness: years 2020, 2021, 2022 with revenues 100, 120, 150, stored
\* in another order, give 2021 = 20.0 and 2022 = 25.0.
C13_Witness ==
    /\ q >= 2
    /\ Len(db.documents) = 3
    /\ YearOf(1) = Str("2022") /\ RevenueOf(1) = Num(150)
    /\ YearOf(2) = Str("2020") /\ RevenueOf(2) = Num(100)
    /\ YearOf(3) = Str("2021") /\ RevenueOf(3) = Num(120)
    /\ report[1].rows = <<ReportRow(Str("2021"), <<Real2(2000)>>),
                          ReportRow(Str("2022"), <<Real2(2500)>>)>>

\* extract_financial_data is past its while loop.
PastPolling == pc \in {"assistants_delete", "files_delete", "parse", "store"}

\* The messages are read, and extract returns, only once the status read
\* and the run itself have left {queued, in_progress}.
Waiting == {"queued", "in_progress"}
ReturnsOnlyAfterTerminal == PastPolling => (status \notin Waiting /\ run \notin Waiting)

\* C15 as stated: the messages are read only after the run has left
\* {queued, in_progress}, and once the run has left those states extract
\* eventually returns a record.
C15_EventuallyReturns ==
    /\ []ReturnsOnlyAfterTerminal
    /\ (pc = "poll" /\ run \notin Waiting) ~> (pc = "store")

\* C15: the messages are read, and extract returns, only after the run has
\* left {queued, in_progress} (so it never returns while the run stays
\* there), and once the run has left those states extract eventually
\* returns a record or raises the exception of a failing remote call.
C15_EventuallyReturnsOrRaises ==
    /\ []ReturnsOnlyAfterTerminal
    /\ (pc = "poll" /\ run \notin Waiting) ~> (pc \in {"store", "aborted"})

\* C15 witness: extract returned a record after polls that saw the run
\* queued and then terminal.
C15_Witness ==
    /\ pc = "store"
    /\ run = "completed"
    /\ status = "completed"
    /\ financial_data # JNull
    /\ Len(deleted) = 2

\* C16: what extract_financial_data returns is decided by the first
\* assistant message alone: the value its text denotes when it parses, the
\* default record when it does not, whatever the messages after it hold.
C16_FirstAssistantDecides ==
    pc = "store" =>
        \A j \in 1..Len(messages) :
            IsFirstAssistant(messages, j) =>
                financial_data = IF IsJson(messages[j])
                                 THEN messages[j].content[1].value
                                 ELSE default_data

\* C16 witness: the first assistant message is garbage, the next one would
\* parse, and the default record was returned.
C16_Witness ==
    /\ pc = "store"
    /\ Len(messages) = 2
    /\ messages[1].role = "assistant" /\ ~IsJson(messages[1])
    /\ messages[2].role = "assistant" /\ IsJson(messages[2])
    /\ financial_data = default_data

\* An element extract_features takes a fact from, and that fact.
Accepted(e) ==
    \/ e.tag = "ix:nonnumeric"
    \/ e.tag = "ix:nonfraction" /\ NumericValue(e) # JNull
FactOf(e) == IF e.tag = "ix:nonfraction" THEN NumericFact(e) ELSE NonNumericFact(e)

\* The facts of the elements of html that satisfy keep, in document order.
FactsOf(html, keep(_)) ==
    LET kept == SelectSeq(html, keep) IN [m \in 1..Len(kept) |-> FactOf(kept[m])]

\* C17 as stated: the returned facts are those of the accepted elements, one
\* each, in the document order of the elements.
C17_DocumentOrder ==
    p.pass = "returned" => features = FactsOf(html_content, Accepted)

\* C17: the returned facts are those of the accepted numeric elements in
\* document order followed by those of the non-numeric elements in document
\* order, one fact per accepted element and no deduplication; a numeric
\* element whose text is not a numeral gives no fact and the scan goes on.
C17_NumericThenNonNumeric ==
    p.pass = "returned" =>
        features =
            FactsOf(html_content, LAMBDA e : e.tag = "ix:nonfraction" /\ Accepted(e))
            \o FactsOf(html_content, LAMBDA e : e.tag = "ix:nonnumeric")

\* C17 witness: a non-numeric element, then a numeric element whose text is
\* not a numeral, then a numeric element whose text is one; the numeric fact
\* comes first in the result.
C17_Witness ==
    /\ p.pass = "returned"
    /\ Len(html_content) = 3
    /\ html_content[1].tag = "ix:nonnumeric"
    /\ html_content[2].tag = "ix:nonfraction" /\ ~Accepted(html_content[2])
    /\ html_content[3].tag = "ix:nonfraction" /\ Accepted(html_content[3])
    /\ features = <<NumericFact(html_content[3]), NonNumericFact(html_content[1])>>

\* save_financial_data returned, or its export loop raised.
ExportReturned == pc \in {"analysis", "query", "print_summary", "done"} \/ AnalysisFailed
ExportFailed ==
    /\ pc = "aborted"
    /\ q = 0
    /\ i > Len(file_paths)
    /\ conn = "closed"
    /\ k > Len(results)

\* Snapshot n is that of the n-th category and holds one row per batch
\* document, in batch order, flattened from the record in memory.
SnapshotOfBatch(n) ==
    LET group == GroupOf(Categories[n])
        rows == snapshots[n].rows
    IN /\ snapshots[n].category = Categories[n]
       /\ Len(rows) = Len(results)
       /\ \A j \in 1..Len(results) :
             LET data == results[j].data.f IN
             /\ DOMAIN rows[j] = DOMAIN data[group].f \cup {"company", "fiscal_year"}
             /\ \A col \in DOMAIN data[group].f : rows[j][col] = data[group].f[col]
             /\ "company" \notin DOMAIN data[group].f =>
                   rows[j].company = data.document_info.f.company_name
             /\ "fiscal_year" \notin DOMAIN data[group].f =>
                   rows[j].fiscal_year = data.document_info.f.fiscal_year

\* C18 as stated: for every batch, the empty one included, the export leaves
\* three snapshots, one per category, each with one row per batch document.
C18_ThreeSnapshotsAlways ==
    (ExportReturned \/ ExportFailed) =>
        /\ Len(snapshots) = Len(Categories)
        /\ \A n \in 1..Len(snapshots) : SnapshotOfBatch(n)

\* C18: every snapshot written is built from the batch in memory, one row
\* per batch document in batch order, rolled-back documents included; a
\* non-empty batch whose records all hold the three groups gets the three
\* snapshots; the empty batch gets none; and when a record lacks a group the
\* export raises at that category, the snapshots before it being written.
C18_SnapshotsFromBatch ==
    /\ Len(snapshots) <= Len(Categories)
    /\ \A n \in 1..Len(snapshots) : SnapshotOfBatch(n)
    /\ ExportReturned =>
          Len(snapshots) = IF Len(results) = 0 THEN 0 ELSE Len(Categories)
    /\ ExportFailed =>
          /\ Len(snapshots) < Len(Categories)
          /\ \E j \in 1..Len(results) :
                ~CanExportRow(results[j].data, GroupOf(Categories[Len(snapshots) + 1]))

\* C18 witness: the three snapshots of a batch of two documents, one of
\* which was rolled back.
C18_Witness ==
    /\ ExportReturned
    /\ Len(results) = 2
    /\ Len(snapshots) = 3
    /\ Cardinality(Committed) = 1
    /\ Len(log) = 2
    /\ Len(db.documents) = 1

\* main_flow is inside save_financial_data's store part.
Persisting ==
    pc \in {"save", "doc", "insert_documents", "insert_income_statements",
            "insert_balance_sheets", "insert_cash_flows", "commit", "rollback"}

\* An exception left main_flow while a document was read or extracted.
ExtractionAborted == pc = "aborted" /\ i <= Len(file_paths)

\* C19: the store is written only once every input document has been
\* extracted; when reading or extracting a document raises, the run ends
\* with the store recreated and empty: nothing of this run is in it, the
\* documents already extracted included, and nothing of the previous run.
C19_AbortLeavesEmptyStore ==
    /\ Persisting => i > Len(file_paths)
    /\ i <= Len(file_paths) => log = <<>>
    /\ ExtractionAborted =>
          /\ db = EmptyTables
          /\ conn = "closed"
          /\ snapshots = <<>>

\* C19 witness: the second document's extraction raised after the first
\* one's record had been put into the batch.
C19_Witness ==
    /\ ExtractionAborted
    /\ i = 2
    /\ Len(results) = 1
    /\ ~IsDefaultRecord(results[1].data)
    /\ db = EmptyTables

\* Extraction is over: the for loop of main_flow has ended.
ExtractionOver == pc # "init" /\ i > Len(file_paths)

\* C20: the batch has one entry per input path, and save_financial_data
\* attempts that many documents, also when two paths share a base name.
C20_OneEntryPerPath ==
    /\ ExtractionOver => Len(results) = Len(file_paths)
    /\ ExportReturned => Len(log) = Len(file_paths)

====
